---- MODULE Spec2Model ----
(***************************************************************************)
(* Firmament (src/firmament.py): reconciliation of the Canonn star_systems *)
(* and system_bodies tables against the Spansh dump API.  One run is       *)
(* main(): process(missing_systems_query), download_and_process_json(),    *)
(* process(incomplete_systems_query, complete=False).                      *)
(***************************************************************************)
EXTENDS Integers, Sequences, FiniteSets, TLC

\* ---------------------------------------------------------------- bounds
MaxId == 2
MaxBodyId == 1
FetchSize == 1

\* Python None / SQL NULL
Null == -1

\* identifiers known to the Remote System Source
Ids == 1..MaxId
BodyIds == 1..MaxBodyId
\* system names under which codexreport records system 1
Names == {"n1", "n2"}
BodyTypes == {"Planet", "Belt"}
\* the rows organic_scans may hold: system 1 under a name codexreport also
\* uses, or a second system
ReportRows == {[id64 |-> 1, name |-> "n2"], [id64 |-> 2, name |-> "n2"]}

\* ------------------------------------------------ Remote System Source
\* a "bodies" array: bodies with distinct ascending bodyId
BodyLists ==
  {bl \in UNION {[1..n -> [bodyId : BodyIds, type : BodyTypes]] : n \in 0..MaxBodyId} :
     \A a, b \in DOMAIN bl : a < b => bl[a].bodyId < bl[b].bodyId}

\* the "system" object of GET /api/dump/{id64}; bodyCount is unknown or the
\* number of bodies the system has
Docs(id) == [id64 : {id}, bodyCount : {Null, MaxBodyId}, bodies : BodyLists]

NoDoc == [id64 |-> Null]

\* a response: non-200, 200 with a system document, 200 without one
Responses(id) ==
  [status_code : {200}, system : Docs(id) \cup {NoDoc}]
    \cup [status_code : {404}, system : {NoDoc}]

\* ------------------------------------------------------- pure functions
RECURSIVE count_from(_, _)
count_from(bodies, k) ==
  IF k > Len(bodies) THEN 0
  ELSE (IF bodies[k].type \in {"Planet", "Star"} THEN 1 ELSE 0) + count_from(bodies, k + 1)

\* faulty variant: counts every body, whatever its type
count_bodies_all(bodies) == Len(bodies)

count_bodies(bodies) == count_from(bodies, 1)

\* (data.get("bodyCount") or 0)
OrZero(v) == IF v = Null THEN 0 ELSE v

\* lines 157-160
changed(data, row) ==
  ~(data.lenBodies = row.len_bodies /\ OrZero(data.bodyCount) = row.body_count)

\* line 162: the document is appended when complete or not changed
Accept(complete, data, row) == complete \/ ~changed(data, row)

\* faulty variant: the sense of the BulkIndex test is inverted
ShouldFetchInverted(complete, dict, row) == complete \/ row.id64 \notin dict

\* faulty variant: the BulkIndex is consulted in the missing pass too
ShouldFetchNoComplete(complete, dict, row) == row.id64 \in dict

\* line 144: complete or id64_dict.get(int(row.get("id64")))
ShouldFetch(complete, dict, row) == complete \/ row.id64 \in dict

\* session.get() is called once for a row that is fetched
RequestsFor(status_code) == 1

\* faulty variant: a non-200 response leaves an empty document in systems
Non200Keeps(systems, row) == Append(systems, [id64 |-> row.id64, bodyCount |-> Null, lenBodies |-> 0, bodies |-> <<>>])

\* lines 167-168: a non-200 response is logged, systems is left alone
OnNon200(systems, row) == systems

\* ---------------------------------------------------- Persistent Store
EmptyStore == [star_systems |-> <<>>, system_bodies |-> <<>>]

\* generated columns of star_systems
body_count(ss) == ss.bodyCount
len_bodies(ss) == ss.lenBodies
bodies_match(ss) ==
  IF ss.bodyCount = Null \/ ss.lenBodies = Null THEN Null
  ELSE IF ss.bodyCount = ss.lenBodies THEN 1 ELSE 0
IfNull(v, d) == IF v = Null THEN d ELSE v

\* primary key of system_bodies
BodyKey(body) == <<body.systemAddress, body.bodyId>>

missing_systems_query(store, cr, os) ==
  {[id64 |-> r.id64, name |-> r.name, body_count |-> Null, len_bodies |-> Null] :
     r \in {q \in cr : q.id64 \notin DOMAIN store.star_systems}}
  \cup
  {[id64 |-> r.id64, name |-> r.name, body_count |-> Null, len_bodies |-> Null] :
     r \in {q \in os : q.id64 \notin DOMAIN store.star_systems}}

IncompleteSelect(store, tbl) ==
  {[id64 |-> r.id64, name |-> r.name,
    body_count |-> IfNull(body_count(store.star_systems[r.id64]), 0),
    len_bodies |-> len_bodies(store.star_systems[r.id64])] :
     r \in {q \in tbl : /\ q.id64 \in DOMAIN store.star_systems
                        /\ IfNull(bodies_match(store.star_systems[q.id64]), 0) # 1}}

incomplete_systems_query(store, cr, os) ==
  IncompleteSelect(store, cr) \cup IncompleteSelect(store, os)

\* the order of a result set is the server's choice: the rows come back in
\* ascending or in descending (id64, name) order
NameIx(n) == CHOOSE k \in 1..3 : <<"n1", "n2", "n3">>[k] = n
Rank(r) == 4 * r.id64 + NameIx(r.name)
Orders(S) ==
  {s \in [1..Cardinality(S) -> S] :
     \/ \A a, b \in DOMAIN s : a < b => Rank(s[a]) < Rank(s[b])
     \/ \A a, b \in DOMAIN s : a < b => Rank(s[a]) > Rank(s[b])}

\* INSERT ... ON DUPLICATE KEY UPDATE raw_json = VALUES(raw_json), one row
UpsertRow(tbl, key, val) ==
  [k \in DOMAIN tbl \cup {key} |-> IF k = key THEN val ELSE tbl[k]]

RECURSIVE upsert_systems(_, _, _)
upsert_systems(tbl, values, k) ==
  IF k > Len(values) THEN tbl
  ELSE upsert_systems(UpsertRow(tbl, values[k].id64, values[k]), values, k + 1)

RECURSIVE upsert_bodies(_, _, _)
upsert_bodies(tbl, values, k) ==
  IF k > Len(values) THEN tbl
  ELSE upsert_bodies(UpsertRow(tbl, BodyKey(values[k]), values[k]), values, k + 1)

\* faulty variant: the table is replaced by the batch
insert_systems_truncating(store, systems) ==
  [store EXCEPT !.star_systems = upsert_systems(<<>>, systems, 1)]

insert_systems(store, systems) ==
  [store EXCEPT !.star_systems = upsert_systems(store.star_systems, systems, 1)]

insert_bodies(store, bodies) ==
  [store EXCEPT !.system_bodies = upsert_bodies(store.system_bodies, bodies, 1)]

\* process(), lines 246-256: split the accepted documents
SystemValue(data) ==
  [id64 |-> data.id64, bodyCount |-> data.bodyCount, lenBodies |-> data.lenBodies]

BodyValuesOf(data) ==
  [k \in 1..Len(data.bodies) |->
     [systemAddress |-> data.id64, bodyId |-> data.bodies[k].bodyId,
      type |-> data.bodies[k].type]]

RECURSIVE body_values_from(_, _)
body_values_from(system_data, k) ==
  IF k > Len(system_data) THEN <<>>
  ELSE BodyValuesOf(system_data[k]) \o body_values_from(system_data, k + 1)

body_values(system_data) == body_values_from(system_data, 1)

system_values(system_data) == [k \in 1..Len(system_data) |-> SystemValue(system_data[k])]

\* process(), lines 261-264: the writes of one batch
Written(store, sv, bv) ==
  LET s1 == IF Len(sv) > 0 THEN insert_systems(store, sv) ELSE store
  IN  IF Len(bv) > 0 THEN insert_bodies(s1, bv) ELSE s1

\* process(), lines 263-265: the commit sits under the body_values test
Commits(sv, bv) == Len(bv) > 0

\* ------------------------------------------------------------- state
VARIABLES
  codexreport,    \* report table, read only
  organic_scans,  \* report table, read only
  committed,      \* the Store as committed
  working,        \* the Store as seen through mysql_conn (committed + open transaction)
  id64_dict,      \* BulkIndex: the identifiers of the weekly snapshot
  pc,             \* position in main()/process()
  complete,       \* process()'s complete argument
  cursor,         \* buffered result of the candidate query and the read position
  rows,           \* the page being handled by fetch_systems
  i,              \* index of the next row of the page
  systems,        \* fetch_systems' list of accepted documents
  log,            \* history: one entry per handled row of the current page
  txBatches,      \* history: number of batches with writes in the open transaction
  lastCommit      \* history: number of batches made durable by the latest commit

vars == <<codexreport, organic_scans, committed, working, id64_dict, pc, complete,
          cursor, rows, i, systems, log, txBatches, lastCommit>>

reports == <<codexreport, organic_scans>>

Init ==
  /\ codexreport = {[id64 |-> 1, name |-> n] : n \in Names}
  /\ organic_scans \in {S \in SUBSET ReportRows : Cardinality(S) <= 1}
  /\ committed = EmptyStore
  /\ working = EmptyStore
  /\ id64_dict = {}
  /\ pc = "start"
  /\ complete = TRUE
  /\ cursor = [result |-> <<>>, pos |-> 0]
  /\ rows = <<>>
  /\ i = 1
  /\ systems = <<>>
  /\ log = <<>>
  /\ txBatches = 0
  /\ lastCommit = 0

\* main(), lines 320-338: a new process connects and starts the missing pass
Main ==
  /\ pc \in {"start", "done", "aborted"}
  /\ id64_dict' = {}
  /\ working' = committed
  /\ complete' = TRUE
  /\ pc' = "query"
  /\ txBatches' = 0
  /\ cursor' = [result |-> <<>>, pos |-> 0]
  /\ rows' = <<>>
  /\ i' = 1
  /\ systems' = <<>>
  /\ log' = <<>>
  /\ UNCHANGED <<reports, committed, lastCommit>>

\* process(), lines 226-233: run the candidate query
Execute ==
  /\ pc = "query"
  /\ \E result \in Orders(IF complete
                            THEN missing_systems_query(working, codexreport, organic_scans)
                            ELSE incomplete_systems_query(working, codexreport, organic_scans)) :
        cursor' = [result |-> result, pos |-> 0]
  /\ log' = <<>>
  /\ pc' = "fetchmany"
  /\ UNCHANGED <<reports, committed, working, id64_dict, complete, rows, i, systems,
                 txBatches, lastCommit>>

Min(a, b) == IF a < b THEN a ELSE b

\* faulty variant: the read position is never advanced
FetchManyStuck(c, size) ==
  [page |-> SubSeq(c.result, 1, Min(Len(c.result), size)), pos |-> c.pos]

\* cursor.fetchmany(size)
FetchManyRows(c, size) ==
  [page |-> SubSeq(c.result, c.pos + 1, Min(Len(c.result), c.pos + size)),
   pos |-> Min(Len(c.result), c.pos + size)]

\* process(), lines 234-243 and 266-269: next page, or the end of the pass
FetchMany ==
  /\ pc = "fetchmany"
  /\ LET f == FetchManyRows(cursor, FetchSize) IN
       /\ cursor' = [cursor EXCEPT !.pos = f.pos]
       /\ rows' = f.page
       /\ IF f.page = <<>>
            THEN pc' = IF complete THEN "download" ELSE "end"
            ELSE pc' = "fetch"
  /\ i' = 1
  /\ systems' = <<>>
  /\ log' = <<>>
  /\ lastCommit' = 0
  /\ UNCHANGED <<reports, committed, working, id64_dict, complete, txBatches>>

Entry(row, reqs, status, outcome, data) ==
  [id64 |-> row.id64, name |-> row.name, requests |-> reqs, status_code |-> status,
   outcome |-> outcome, body_count |-> row.body_count, len_bodies |-> row.len_bodies,
   bodyCount |-> data.bodyCount, lenBodies |-> data.lenBodies]

NoData == [bodyCount |-> Null, lenBodies |-> Null]

\* fetch_systems(), lines 142-170: one iteration of the loop over the page
FetchRow ==
  /\ pc = "fetch"
  /\ i <= Len(rows)
  /\ LET row == rows[i] IN
       IF ShouldFetch(complete, id64_dict, row)
       THEN \E response \in Responses(row.id64) :
              IF response.status_code = 200
              THEN IF response.system = NoDoc
                   THEN \* data is None: the exception ends the process
                        /\ pc' = "aborted"
                        /\ working' = committed
                        /\ txBatches' = 0
                        /\ log' = Append(log, Entry(row, RequestsFor(200), 200, "raise", NoData))
                        /\ UNCHANGED <<systems, i>>
                   ELSE LET data == [id64 |-> response.system.id64,
                                     bodyCount |-> response.system.bodyCount,
                                     bodies |-> response.system.bodies,
                                     lenBodies |-> count_bodies(response.system.bodies)]
                        IN  /\ IF Accept(complete, data, row)
                               THEN /\ systems' = Append(systems, data)
                                    /\ log' = Append(log, Entry(row, RequestsFor(200), 200, "accept", data))
                               ELSE /\ systems' = systems
                                    /\ log' = Append(log, Entry(row, RequestsFor(200), 200, "reject", data))
                            /\ i' = i + 1
                            /\ UNCHANGED <<pc, working, txBatches>>
              ELSE /\ systems' = OnNon200(systems, row)
                   /\ log' = Append(log, Entry(row, RequestsFor(response.status_code),
                                               response.status_code, "error", NoData))
                   /\ i' = i + 1
                   /\ UNCHANGED <<pc, working, txBatches>>
       ELSE /\ log' = Append(log, Entry(row, 0, 0, "skip", NoData))
            /\ i' = i + 1
            /\ UNCHANGED <<pc, working, txBatches, systems>>
  /\ UNCHANGED <<reports, committed, id64_dict, complete, cursor, rows, lastCommit>>

\* process(), lines 244-265: split, insert and commit the batch
Upsert ==
  /\ pc = "fetch"
  /\ i > Len(rows)
  /\ LET sv == system_values(systems)
         bv == body_values(systems)
         w  == Written(working, sv, bv)
         tx == IF Len(sv) > 0 THEN txBatches + 1 ELSE txBatches
     IN  /\ working' = w
         /\ IF Commits(sv, bv)
              THEN /\ committed' = w
                   /\ lastCommit' = tx
                   /\ txBatches' = 0
              ELSE /\ committed' = committed
                   /\ lastCommit' = lastCommit
                   /\ txBatches' = tx
  /\ pc' = "fetchmany"
  /\ UNCHANGED <<reports, id64_dict, complete, cursor, rows, i, systems, log>>

\* download_and_process_json() and main(), lines 339-341
Download ==
  /\ pc = "download"
  /\ \E d \in SUBSET Ids : id64_dict' = d
  /\ complete' = FALSE
  /\ pc' = "query"
  /\ cursor' = [result |-> <<>>, pos |-> 0]
  /\ log' = <<>>
  /\ UNCHANGED <<reports, committed, working, rows, i, systems, txBatches, lastCommit>>

\* main(), lines 343-348: the patrol is written and the process exits;
\* the connection is dropped without a commit
Exit ==
  /\ pc = "end"
  /\ working' = committed
  /\ txBatches' = 0
  /\ pc' = "done"
  /\ cursor' = [result |-> <<>>, pos |-> 0]
  /\ log' = <<>>
  /\ UNCHANGED <<reports, committed, id64_dict, complete, rows, i, systems, lastCommit>>

Next == Main \/ Execute \/ FetchMany \/ FetchRow \/ Upsert \/ Download \/ Exit

Spec == Init /\ [][Next]_vars

\* one system reported under three names: three candidate rows
LiveInit ==
  /\ codexreport = {[id64 |-> 1, name |-> n] : n \in Names}
  /\ organic_scans = {[id64 |-> 1, name |-> "n3"]}
  /\ committed = EmptyStore
  /\ working = EmptyStore
  /\ id64_dict = {}
  /\ pc = "start"
  /\ complete = TRUE
  /\ cursor = [result |-> <<>>, pos |-> 0]
  /\ rows = <<>>
  /\ i = 1
  /\ systems = <<>>
  /\ log = <<>>
  /\ txBatches = 0
  /\ lastCommit = 0

\* the process is sequential: once started it always takes its next step
Step == Execute \/ FetchMany \/ FetchRow \/ Upsert \/ Download \/ Exit

LiveSpec == LiveInit /\ [][Next]_vars /\ WF_vars(Step)

\* ------------------------------------------------------------ claims
IsPlanetOrStar(body) == body.type \in {"Planet", "Star"}

\* the rows of the current page that were fetched and yielded a document
Decided == {k \in DOMAIN log : log[k].outcome \in {"accept", "reject"}}

CountsDiffer(e) ==
  e.lenBodies # e.len_bodies \/ OrZero(e.bodyCount) # e.body_count

\* C1: in the incomplete pass a fetched document is accepted into the batch
\* if and only if its lenBodies or bodyCount differs from the stored
\* len_bodies/body_count of the candidate row; equal counts are discarded.
C1_AcceptIffChanged ==
  ~complete => \A k \in Decided : (log[k].outcome = "accept") <=> CountsDiffer(log[k])

\* C2: when a pass of process() has ended without a fatal error, every write
\* it issued is committed, also when the accepted documents had no bodies.
C2_AllWritesCommitted ==
  pc \in {"download", "end"} => working = committed

\* C3: each batch is written in its own transaction: before the next page is
\* fetched the writes of the batch are committed, and no commit makes the
\* writes of two batches durable.
C3_OneTransactionPerBatch ==
  /\ lastCommit <= 1
  /\ pc = "fetchmany" => txBatches = 0

StoredPlanetsAndStars(store, id) ==
  {k \in DOMAIN store.system_bodies :
     k[1] = id /\ IsPlanetOrStar(store.system_bodies[k])}

Non200Step ==
  /\ pc = "fetch"
  /\ Len(log') = Len(log) + 1
  /\ log'[Len(log')].status_code \notin {0, 200}

SkipStep ==
  /\ pc = "fetch"
  /\ Len(log') = Len(log) + 1
  /\ log'[Len(log')].outcome = "skip"

\* C7: in the incomplete pass a candidate absent from the BulkIndex is
\* skipped with no request and no write, a candidate present in it is
\* fetched, and the decision on a fetched document is a function of the
\* stored and fetched counts alone.
C7_BulkIndexOnlySkips ==
  /\ [](~complete =>
         \A k \in DOMAIN log :
           /\ log[k].id64 \notin id64_dict => (log[k].outcome = "skip" /\ log[k].requests = 0)
           /\ log[k].id64 \in id64_dict => (log[k].outcome # "skip" /\ log[k].requests >= 1)
           /\ k \in Decided => ((log[k].outcome = "reject") <=> CountsDiffer(log[k])))
  /\ [][SkipStep => /\ systems' = systems
                    /\ working' = working
                    /\ committed' = committed]_vars

C7_Witness ==
  /\ ~complete
  /\ id64_dict # {}
  /\ \E k \in DOMAIN log : log[k].outcome = "skip" /\ log[k].id64 \notin id64_dict

\* the step wrote the batch of accepted documents
UpsertStep == pc = "fetch" /\ i > Len(rows) /\ pc' = "fetchmany"

\* the last document of the batch written for an identifier
LastFor(id) ==
  CHOOSE k \in DOMAIN systems :
    /\ systems[k].id64 = id
    /\ \A j \in DOMAIN systems : systems[j].id64 = id => j <= k

\* C8: the batched upsert is idempotent and never deletes: writing the same
\* batch again leaves the store as it is after the first write, and every
\* key present before the write is present after it; a key written twice
\* holds the later document.
C8_UpsertIdempotent ==
  [][UpsertStep =>
       /\ Written(working', system_values(systems), body_values(systems)) = working'
       /\ DOMAIN working.star_systems \subseteq DOMAIN working'.star_systems
       /\ DOMAIN working.system_bodies \subseteq DOMAIN working'.system_bodies
       /\ \A k \in DOMAIN systems :
            working'.star_systems[systems[k].id64] = SystemValue(systems[LastFor(systems[k].id64)])
       /\ \A k \in DOMAIN systems : \A b \in DOMAIN systems[k].bodies :
            <<systems[k].id64, systems[k].bodies[b].bodyId>> \in DOMAIN working'.system_bodies]_vars

C8_Witness ==
  /\ pc = "fetchmany"
  /\ Len(systems) > 0
  /\ Cardinality(DOMAIN working.star_systems) >= 2
  /\ working.star_systems[systems[Len(systems)].id64] = SystemValue(systems[Len(systems)])

Candidates(store) ==
  missing_systems_query(store, codexreport, organic_scans)
    \cup incomplete_systems_query(store, codexreport, organic_scans)

\* C9: for any store state candidate selection yields each identifier at
\* most once, within the Missing set, within the Incomplete set and across
\* the two.
C9_CandidatesUnique ==
  \A r1, r2 \in Candidates(working) : r1.id64 = r2.id64 => r1 = r2

\* a pass of process() is under way
InPass == pc \in {"fetchmany", "fetch"}

PassTerminates == InPass ~> ~InPass

\* the page is the window of the result that ends at the cursor position
PageIsWindow ==
  /\ Len(rows) <= cursor.pos
  /\ cursor.pos <= Len(cursor.result)
  /\ rows = SubSeq(cursor.result, cursor.pos - Len(rows) + 1, cursor.pos)

\* the log holds the first n rows of the page, one entry each, in order
Handled(n) ==
  /\ Len(log) = n
  /\ \A k \in 1..n :
       /\ log[k].id64 = rows[k].id64
       /\ log[k].name = rows[k].name
       /\ log[k].requests <= 1
       /\ log[k].outcome \in {"skip", "accept", "reject", "error"}

C10_InOrderOnce ==
  /\ pc = "fetch" => PageIsWindow /\ Handled(i - 1)
  /\ pc = "fetchmany" => PageIsWindow /\ Handled(Len(rows))
  /\ pc \in {"download", "end"} => cursor.pos = Len(cursor.result)

\* the next page starts where the previous one ended
PagesAdvance ==
  pc = "fetchmany" => cursor'.pos = cursor.pos + Len(rows')

\* C10: a pass over a finite result terminates, and every candidate row is
\* handled exactly once, in query order, with one outcome and at most one
\* request.
C10_PassHandlesEachRowOnce ==
  /\ []C10_InOrderOnce
  /\ [][PagesAdvance]_vars
  /\ PassTerminates

C10_Witness ==
  /\ pc \in {"download", "end"}
  /\ Len(cursor.result) > FetchSize
  /\ cursor.result[1].name = "n3"

====
